---- MODULE Spec2Model ----
(***************************************************************************)
(* Model of rollux-sanity (src/main.py): the node-health verifier.         *)
(*                                                                         *)
(* One check run is a sequential program: the port scan (is_port_open per  *)
(* port), the reference head lookup, the two eth_getBlockByNumber queries, *)
(* the hash comparison, check_block_progression and the report.  The       *)
(* network is the environment: every requests.post and every connect_ex    *)
(* draws its outcome from the set of outcomes the transport can produce.   *)
(*                                                                         *)
(* Two specifications:                                                     *)
(*   Spec            a whole run of main() or perform_checks()             *)
(*   SpecProgression a call of check_block_progression(rpc_url, timeout)   *)
(*                   for every timeout in 0..MaxTimeout                    *)
(*                                                                         *)
(* Time: time.time() reads `clock`, which only time.sleep advances (RPC    *)
(* round trips take no time).                                              *)
(***************************************************************************)
EXTENDS Integers, Sequences, FiniteSets, TLC

VARIABLES
    mode,                    \* "main" (one-shot) or "api" (perform_checks)
    timeout,                 \* the timeout parameter, seconds
    host,                    \* how the target's hostname behaves in this run
    pc,                      \* position of the run
    exception,               \* the exception that ended the run, "" if none
    port_status,             \* verdicts of the ports probed so far, in order
    open_sockets,            \* sockets created by is_port_open and not closed
    ref_head,                \* environment: the reference chain's head now
    latest_block_number,     \* main:88 / perform_checks:123
    ref_fetches,             \* eth_blockNumber calls sent to the reference
    sent_ref,                \* block number parameter sent to the reference
    sent_tgt,                \* block number parameter sent to the target
    reference_block_details,
    target_block_details,
    reference_block_hash,
    target_block_hash,
    hash_check_pass,
    missing_data,            \* a decoded 200 block response lacked its data
    clock,                   \* time.time()
    start_time,
    initial_block_number,
    current_block_number,
    block_progression_pass,
    baseline_fetches,        \* baseline queries issued by the poller
    baseline_from,           \* endpoint the baseline was read from
    polls,                   \* eth_blockNumber polls issued inside the loop
    sleeps,                  \* time.sleep(5) calls made
    first_rise,              \* index of the first poll above baseline, 0 if none
    report                   \* the report of the run, NoReport until produced

vars == <<mode, timeout, host, pc, exception, port_status, open_sockets,
          ref_head, latest_block_number, ref_fetches, sent_ref, sent_tgt,
          reference_block_details, target_block_details,
          reference_block_hash, target_block_hash, hash_check_pass,
          missing_data, clock, start_time, initial_block_number,
          current_block_number, block_progression_pass, baseline_fetches,
          baseline_from, polls, sleeps, first_rise, report>>

----------------------------------------------------------------------------
(* Bounds of the model *)

MaxHead == 1            \* heads range over FirstHead .. FirstHead + MaxHead
FirstHead == 15         \* 0xf, 0x10, 0x11: the hex encoding changes length
MaxTimeout == 15        \* timeouts of SpecProgression: 0 .. MaxTimeout
MaxStartClock == 1      \* time.time() at the call, SpecProgression

(* Program constants *)

PollInterval == 5       \* time.sleep(5)
DefaultTimeout == 30    \* timeout=30

None == -1              \* Python's None where an int is expected
NoHash == "None"        \* Python's None where a hash string is expected

Heads == FirstHead .. (FirstHead + MaxHead)
Hashes == {"0xabc", "0xdef"}

rpc_url == "target"
reference_url == "reference"

CliPorts == <<30303, 9003, 30304>>
ApiPorts == <<30303, 9003, 30304, 8369, 18369>>
ports_to_check == IF mode = "main" THEN CliPorts ELSE ApiPorts

----------------------------------------------------------------------------
(* Python values *)

\* hex(n) without its "0x" prefix: the digits, most significant first
RECURSIVE hex(_)
hex(n) == IF n < 16 THEN <<n>> ELSE Append(hex(n \div 16), n % 16)

\* int(s, 16)
RECURSIVE int16(_)
int16(s) ==
    IF Len(s) = 0 THEN 0
    ELSE 16 * int16(SubSeq(s, 1, Len(s) - 1)) + s[Len(s)]

NotSent == <<>>

\* a dict with string keys and string values
EmptyDict == [k \in {} |-> ""]
dict_get(d, k) == IF k \in DOMAIN d THEN d[k] ELSE NoHash

\* what fetch_block_details can return: a dict, or None (result: null)
PyNone == [none |-> TRUE, dict |-> EmptyDict]
PyDict(d) == [none |-> FALSE, dict |-> d]

\* the outcome of a call: a returned value or a raised exception
Return(v) == [raised |-> "", value |-> v]
Raise(e, v) == [raised |-> e, value |-> v]

----------------------------------------------------------------------------
(* The transport: what requests.post can give back *)

TransportFailures == {"ConnectionRefused", "DNSFailure", "Timeout"}
FailureKinds ==
    TransportFailures \cup {"Non200", "MalformedJSON", "NoResult", "NullResult"}

Response(k, p) == [kind |-> k, payload |-> p]

\* eth_blockNumber: result is a 0x-prefixed hex string
HeadResponses(heads) ==
    {Response(k, <<>>) : k \in FailureKinds}
        \cup {Response("Result", hex(h)) : h \in heads}

\* eth_getBlockByNumber: result is a block object, {} or null
BlockObjects ==
    {EmptyDict, [parentHash |-> "0xabc"]} \cup {[hash |-> h] : h \in Hashes}
BlockResponses ==
    {Response(k, EmptyDict) : k \in FailureKinds}
        \cup {Response("Result", b) : b \in BlockObjects}

requests_exception(kind) ==
    IF kind = "Timeout" THEN "Timeout" ELSE "ConnectionError"

\* main.py:15-27
fetch_latest_block_number(resp) ==
    IF resp.kind \in TransportFailures
    THEN Raise(requests_exception(resp.kind), None)       \* line 22 raises
    ELSE IF resp.kind = "Non200" THEN Return(None)        \* line 23, 27
    ELSE IF resp.kind = "MalformedJSON"
    THEN Raise("JSONDecodeError", None)                   \* line 24 raises
    ELSE IF resp.kind \in {"NoResult", "NullResult"}
    THEN Return(None)                                     \* line 25, 27
    ELSE Return(int16(resp.payload))                      \* line 26

\* main.py:48-58, the part after hex(block_number)
fetch_block_details(resp) ==
    IF resp.kind \in TransportFailures
    THEN Raise(requests_exception(resp.kind), PyNone)     \* line 55 raises
    ELSE IF resp.kind = "Non200" THEN Return(PyDict(EmptyDict))   \* line 58
    ELSE IF resp.kind = "MalformedJSON"
    THEN Raise("JSONDecodeError", PyNone)                 \* line 57 raises
    ELSE IF resp.kind = "NoResult"
    THEN Return(PyDict(EmptyDict))                        \* .get default {}
    ELSE IF resp.kind = "NullResult"
    THEN Return(PyNone)                                   \* the key is there
    ELSE Return(PyDict(resp.payload))

\* a decoded 200 response that lacks the block hash
LacksData(resp) ==
    \/ resp.kind \in {"NoResult", "NullResult"}
    \/ resp.kind = "Result" /\ "hash" \notin DOMAIN resp.payload

----------------------------------------------------------------------------
(* The port prober, main.py:35-45 *)

HostKinds == {"resolves", "dns_failure"}
ConnectResults == {0, 111, 11}     \* connected, ECONNREFUSED, EAGAIN (timeout)

\* h: the hostname's behaviour; r: connect_ex's result; finalized: whether
\* the runtime finalizes the unreferenced socket object when the call
\* returns (reference counting does, a tracing collector does not).
\* ret is the verdict, left the number of sockets left open.
is_port_open(h, r, finalized) ==
    IF h = "resolves"
    THEN [ret |-> (r = 0), left |-> 0]                    \* lines 40-42
    ELSE [ret |-> FALSE,                                  \* lines 43-45
          left |-> IF finalized THEN 0 ELSE 1]

----------------------------------------------------------------------------
(* Initial states *)

NoReport == [k \in {} |-> FALSE]

InitLocals ==
    /\ exception = ""
    /\ port_status = <<>>
    /\ open_sockets = 0
    /\ latest_block_number = None
    /\ ref_fetches = 0
    /\ sent_ref = NotSent
    /\ sent_tgt = NotSent
    /\ reference_block_details = PyDict(EmptyDict)
    /\ target_block_details = PyDict(EmptyDict)
    /\ reference_block_hash = NoHash
    /\ target_block_hash = NoHash
    /\ hash_check_pass = FALSE
    /\ missing_data = FALSE
    /\ start_time = 0
    /\ initial_block_number = None
    /\ current_block_number = None
    /\ block_progression_pass = FALSE
    /\ baseline_fetches = 0
    /\ baseline_from = ""
    /\ polls = 0
    /\ sleeps = 0
    /\ first_rise = 0
    /\ report = NoReport

\* a run of main(rpc_url) or perform_checks(rpc_url): timeout is the default
Init ==
    /\ mode \in {"main", "api"}
    /\ timeout = DefaultTimeout
    /\ host \in HostKinds
    /\ pc = "ports"
    /\ ref_head \in Heads
    /\ clock = 0
    /\ InitLocals

\* a call of check_block_progression(rpc_url, timeout) on its own
InitProgression ==
    /\ mode = "main"
    /\ timeout \in 0 .. MaxTimeout
    /\ host = "resolves"
    /\ pc = "progression"
    /\ ref_head = FirstHead
    /\ clock \in 0 .. MaxStartClock
    /\ InitLocals

----------------------------------------------------------------------------
(* Steps of a run *)

inputs == <<mode, timeout, host>>
portVars == <<port_status, open_sockets>>
hashVars == <<latest_block_number, ref_fetches, sent_ref, sent_tgt,
              reference_block_details, target_block_details,
              reference_block_hash, target_block_hash, hash_check_pass,
              missing_data>>
pollVars == <<clock, start_time, initial_block_number, current_block_number,
              block_progression_pass, baseline_fetches, baseline_from,
              polls, sleeps, first_rise>>

Min(a, b) == IF a <= b THEN a ELSE b

\* an uncaught exception ends the run
Crash(e) == pc' = "crashed" /\ exception' = e

\* the reference chain may gain a block while a call is under way
ReferenceAdvances ==
    \E adv \in 0 .. 1 : ref_head' = Min(ref_head + adv, FirstHead + MaxHead)

\* main.py:78 / :122, one is_port_open call of the comprehension
ProbePort ==
    /\ pc = "ports"
    /\ \E r \in ConnectResults, finalized \in BOOLEAN :
         LET out == is_port_open(host, r, finalized)
             last == Len(port_status) + 1 = Len(ports_to_check)
         IN  /\ port_status' = Append(port_status, out.ret)
             /\ open_sockets' = open_sockets + out.left
             /\ pc' = IF last THEN "ref_head" ELSE "ports"
    /\ UNCHANGED <<inputs, exception, ref_head, hashVars, pollVars, report>>

\* main.py:88-91 / :123
FetchReferenceHead ==
    /\ pc = "ref_head"
    /\ \E resp \in HeadResponses({ref_head}) :
         LET out == fetch_latest_block_number(resp)
         IN  /\ ref_fetches' = ref_fetches + 1
             /\ IF out.raised # ""
                THEN /\ Crash(out.raised)
                     /\ UNCHANGED latest_block_number
                ELSE /\ latest_block_number' = out.value
                     /\ pc' = IF mode = "main" /\ out.value = None
                              THEN "done"            \* line 91: return
                              ELSE "ref_block"
                     /\ UNCHANGED exception
    /\ ReferenceAdvances
    /\ UNCHANGED <<inputs, portVars, sent_ref, sent_tgt,
                   reference_block_details, target_block_details,
                   reference_block_hash, target_block_hash, hash_check_pass,
                   missing_data, pollVars, report>>

\* main.py:93 / :124
FetchReferenceBlock ==
    /\ pc = "ref_block"
    /\ IF latest_block_number = None
       THEN /\ Crash("TypeError")                    \* line 52: hex(None)
            /\ UNCHANGED <<sent_ref, reference_block_details, missing_data>>
       ELSE \E resp \in BlockResponses :
              LET out == fetch_block_details(resp)
              IN  /\ sent_ref' = hex(latest_block_number)
                  /\ missing_data' = (missing_data \/ LacksData(resp))
                  /\ IF out.raised # ""
                     THEN /\ Crash(out.raised)
                          /\ UNCHANGED reference_block_details
                     ELSE /\ reference_block_details' = out.value
                          /\ pc' = "tgt_block"
                          /\ UNCHANGED exception
    /\ ReferenceAdvances
    /\ UNCHANGED <<inputs, portVars, latest_block_number, ref_fetches,
                   sent_tgt, target_block_details, reference_block_hash,
                   target_block_hash, hash_check_pass, pollVars, report>>

\* variant: the target's query takes a freshly read reference head
FreshReferenceHead == ref_head

\* the block number argument of the target's query, main.py:94 / :125
TargetBlockNumber == latest_block_number

\* main.py:94 / :125
FetchTargetBlock ==
    /\ pc = "tgt_block"
    /\ IF TargetBlockNumber = None
       THEN /\ Crash("TypeError")                    \* line 52: hex(None)
            /\ UNCHANGED <<sent_tgt, target_block_details, missing_data>>
       ELSE \E resp \in BlockResponses :
              LET out == fetch_block_details(resp)
              IN  /\ sent_tgt' = hex(TargetBlockNumber)
                  /\ missing_data' = (missing_data \/ LacksData(resp))
                  /\ IF out.raised # ""
                     THEN /\ Crash(out.raised)
                          /\ UNCHANGED target_block_details
                     ELSE /\ target_block_details' = out.value
                          /\ pc' = "compare"
                          /\ UNCHANGED exception
    /\ UNCHANGED <<inputs, portVars, ref_head, latest_block_number,
                   ref_fetches, sent_ref, reference_block_details,
                   reference_block_hash, target_block_hash, hash_check_pass,
                   pollVars, report>>

\* main.py:95-97 / :128
CompareHashes ==
    /\ pc = "compare"
    /\ IF reference_block_details.none \/ target_block_details.none
       THEN /\ Crash("AttributeError")               \* None.get('hash')
            /\ UNCHANGED <<reference_block_hash, target_block_hash,
                           hash_check_pass>>
       ELSE LET rh == dict_get(reference_block_details.dict, "hash")
                th == dict_get(target_block_details.dict, "hash")
            IN  /\ reference_block_hash' = rh
                /\ target_block_hash' = th
                /\ hash_check_pass' = (rh = th)
                /\ pc' = "progression"
                /\ UNCHANGED exception
    /\ UNCHANGED <<inputs, portVars, ref_head, latest_block_number,
                   ref_fetches, sent_ref, sent_tgt, reference_block_details,
                   target_block_details, missing_data, pollVars, report>>

----------------------------------------------------------------------------
(* check_block_progression, main.py:60-72 *)

\* variant: the None test on the baseline is lost
BaselineNeverAbsent(v) == FALSE

\* line 63
BaselineAbsent(v) == v = None

\* variant: <= for <
LoopContinuesInclusive == clock - start_time <= timeout

\* line 66
LoopContinues == clock - start_time < timeout

\* variant: < for >
AdvancedBelow(cur, base) == cur # None /\ cur < base

\* line 68
Advanced(cur, base) == cur # None /\ cur > base

\* return v
ReturnProgression(v) ==
    /\ block_progression_pass' = v
    /\ pc' = "report"
    /\ UNCHANGED exception

\* lines 61-64
StartProgression ==
    /\ pc = "progression"
    /\ start_time' = clock
    /\ baseline_fetches' = baseline_fetches + 1
    /\ baseline_from' = rpc_url
    /\ \E resp \in HeadResponses(Heads) :
         LET out == fetch_latest_block_number(resp)
         IN  IF out.raised # ""
             THEN /\ Crash(out.raised)
                  /\ UNCHANGED <<initial_block_number, block_progression_pass>>
             ELSE /\ initial_block_number' = out.value
                  /\ IF BaselineAbsent(out.value)
                     THEN ReturnProgression(FALSE)
                     ELSE /\ pc' = "loop"
                          /\ UNCHANGED <<exception, block_progression_pass>>
    /\ UNCHANGED <<inputs, portVars, ref_head, hashVars, clock,
                   current_block_number, polls, sleeps, first_rise, report>>

\* line 66, and line 72 when the loop ends
LoopTest ==
    /\ pc = "loop"
    /\ IF LoopContinues
       THEN /\ pc' = "poll"
            /\ UNCHANGED <<exception, block_progression_pass>>
       ELSE ReturnProgression(FALSE)
    /\ UNCHANGED <<inputs, portVars, ref_head, hashVars, clock, start_time,
                   initial_block_number, current_block_number,
                   baseline_fetches, baseline_from, polls, sleeps,
                   first_rise, report>>

\* lines 67-69
Poll ==
    /\ pc = "poll"
    /\ polls' = polls + 1
    /\ \E resp \in HeadResponses(Heads) :
         LET out == fetch_latest_block_number(resp)
         IN  IF out.raised # ""
             THEN /\ Crash(out.raised)
                  /\ UNCHANGED <<current_block_number, first_rise,
                                 block_progression_pass>>
             ELSE /\ current_block_number' = out.value
                  /\ first_rise' =
                        IF first_rise = 0 /\ out.value # None
                                          /\ out.value > initial_block_number
                        THEN polls + 1 ELSE first_rise
                  /\ IF Advanced(out.value, initial_block_number)
                     THEN ReturnProgression(TRUE)
                     ELSE /\ pc' = "sleep"
                          /\ UNCHANGED <<exception, block_progression_pass>>
    /\ UNCHANGED <<inputs, portVars, ref_head, hashVars, clock, start_time,
                   initial_block_number, baseline_fetches, baseline_from,
                   sleeps, report>>

\* line 70
Sleep ==
    /\ pc = "sleep"
    /\ clock' = clock + PollInterval
    /\ sleeps' = sleeps + 1
    /\ pc' = "loop"
    /\ UNCHANGED <<inputs, exception, portVars, ref_head, hashVars,
                   start_time, initial_block_number, current_block_number,
                   block_progression_pass, baseline_fetches, baseline_from,
                   polls, first_rise, report>>

----------------------------------------------------------------------------
(* The report *)

\* line 80
all_ports_open == \A i \in 1 .. Len(port_status) : port_status[i]

\* main.py:99-118: the verdicts of the "Script completed" line
MainReport ==
    [hash_check |-> hash_check_pass,
     block_progression |-> block_progression_pass,
     port_check |-> all_ports_open]

\* main.py:126-131: the dict perform_checks returns
ApiReport ==
    [port_status |->
        [p \in {ports_to_check[i] : i \in 1 .. Len(port_status)} |->
            \E i \in 1 .. Len(port_status) :
                ports_to_check[i] = p /\ port_status[i]],
     block_hash_check |-> hash_check_pass,
     block_progression |-> block_progression_pass]

Report ==
    /\ pc = "report"
    /\ report' = IF mode = "main" THEN MainReport ELSE ApiReport
    /\ pc' = "done"
    /\ UNCHANGED <<inputs, exception, portVars, ref_head, hashVars, pollVars>>

----------------------------------------------------------------------------
(* Specifications *)

Next ==
    \/ ProbePort
    \/ FetchReferenceHead
    \/ FetchReferenceBlock
    \/ FetchTargetBlock
    \/ CompareHashes
    \/ StartProgression
    \/ LoopTest
    \/ Poll
    \/ Sleep
    \/ Report

Spec == Init /\ [][Next]_vars

NextProgression ==
    \/ StartProgression
    \/ LoopTest
    \/ Poll
    \/ Sleep

SpecProgression == InitProgression /\ [][NextProgression]_vars

----------------------------------------------------------------------------
(* Properties of check_block_progression, under SpecProgression *)

elapsed == clock - start_time

\* C1: when the baseline query succeeds and no poll reports a head above
\* the baseline (equal, lower or Absent), check_block_progression returns
\* false, and the elapsed time at return lies in [timeout, timeout + 5).
C1_TimeoutReturnsFalse ==
    (pc = "report" /\ initial_block_number # None /\ first_rise = 0) =>
        /\ block_progression_pass = FALSE
        /\ elapsed >= timeout
        /\ elapsed < timeout + PollInterval

C1_Witness ==
    /\ pc = "report"
    /\ initial_block_number # None
    /\ first_rise = 0
    /\ polls = 2
    /\ current_block_number = None
    /\ timeout = 7
    /\ elapsed = 10
    /\ block_progression_pass = FALSE

\* C2 as stated: when the Nth poll is the first above the baseline and
\* N * 5 <= timeout, the call returns true at that poll and the elapsed
\* time at return is N * 5 seconds.
C2_ElapsedIsNIntervals ==
    (first_rise > 0 /\ first_rise * PollInterval <= timeout) =>
        /\ pc = "report"
        /\ block_progression_pass = TRUE
        /\ polls = first_rise
        /\ elapsed = first_rise * PollInterval

\* C2, amended: when the Nth poll is the first above the baseline and
\* N * 5 <= timeout, the call returns true at that poll, with no further
\* poll and no further sleep, and the elapsed time at return is
\* (N - 1) * 5 seconds: the first poll is made at time 0, N - 1 sleeps
\* precede the Nth.
C2_EarlyExit ==
    (first_rise > 0 /\ first_rise * PollInterval <= timeout) =>
        /\ pc = "report"
        /\ block_progression_pass = TRUE
        /\ polls = first_rise
        /\ sleeps = first_rise - 1
        /\ elapsed = (first_rise - 1) * PollInterval

C2_Witness ==
    /\ pc = "report"
    /\ first_rise = 2
    /\ timeout = 10
    /\ block_progression_pass = TRUE
    /\ elapsed = PollInterval

\* C3: when the baseline query returns Absent, check_block_progression
\* returns false at once: no poll, no sleep, elapsed time 0, whatever the
\* timeout.
C3_AbsentBaselineReturnsAtOnce ==
    (baseline_fetches = 1 /\ initial_block_number = None /\ exception = "") =>
        /\ pc = "report"
        /\ block_progression_pass = FALSE
        /\ polls = 0
        /\ sleeps = 0
        /\ elapsed = 0

C3_Witness ==
    /\ pc = "report"
    /\ baseline_fetches = 1
    /\ initial_block_number = None
    /\ timeout = MaxTimeout
    /\ block_progression_pass = FALSE

----------------------------------------------------------------------------
(* Properties of a whole run, under Spec *)

AfterCompare == {"progression", "loop", "poll", "sleep", "report", "done"}
Reported == DOMAIN report # {}

HashVerdict ==
    IF mode = "main" THEN report.hash_check ELSE report.block_hash_check
PortVerdict ==
    IF mode = "main" THEN report.port_check
    ELSE \A p \in DOMAIN report.port_status : report.port_status[p]

\* C4: the hash verdict is true iff both endpoints gave a non-Absent hash
\* and the two hashes are equal; it is false when both are Absent.
C4_HashVerdictNeedsBothPresent ==
    pc \in AfterCompare =>
        (hash_check_pass <=>
            /\ reference_block_hash # NoHash
            /\ target_block_hash # NoHash
            /\ reference_block_hash = target_block_hash)

\* the reference head lookup returned Absent (it did not raise)
ReferenceHeadAbsent ==
    /\ ref_fetches = 1
    /\ latest_block_number = None
    /\ pc # "ref_head"
    /\ exception \notin {"ConnectionError", "Timeout", "JSONDecodeError"}

\* C5: when the reference head lookup returns Absent the run does not
\* crash, and it ends with a report whose hash verdict and progression
\* verdict are both false.
C5_AbsentReferenceHeadReported ==
    ReferenceHeadAbsent =>
        /\ pc # "crashed"
        /\ pc = "done" =>
              /\ Reported
              /\ HashVerdict = FALSE
              /\ report.block_progression = FALSE

\* C6: no transport failure (connection refused, DNS failure, timeout,
\* malformed JSON body) ends a run with an exception: the helpers return
\* Absent instead of raising.
C6_TransportFailuresNeverRaise ==
    exception \notin {"ConnectionError", "Timeout", "JSONDecodeError"}

\* C7: the report of every run that completes its checks holds the three
\* sub-verdicts and an overall verdict that is their conjunction (the run
\* main() abandons at line 91 is the case of C5).
C7_ReportHasOverallVerdict ==
    (pc = "done" /\ latest_block_number # None) =>
        /\ Reported
        /\ "overall" \in DOMAIN report
        /\ report.overall =
              (PortVerdict /\ HashVerdict /\ report.block_progression)

\* C8: once a call of is_port_open has returned, the socket it opened is
\* closed, on every exit path.
C8_NoSocketLeftOpen ==
    open_sockets = 0

\* C9: when a decoded 200 block response lacks its data (no result, null
\* result, no hash field) no exception is raised and the hash comparison
\* is reported as failed (both hashes Absent is the case of C4).
C9_MissingDataFailsComparison ==
    missing_data =>
        /\ exception # "AttributeError"
        /\ (/\ pc \in AfterCompare
            /\ (reference_block_hash # NoHash \/ target_block_hash # NoHash))
              => hash_check_pass = FALSE

C10_Numbers ==
    /\ ref_fetches <= 1
    /\ pc \notin {"ports", "ref_head"} => ref_fetches = 1
    /\ sent_ref # NotSent => int16(sent_ref) = latest_block_number
    /\ sent_tgt # NotSent =>
          /\ sent_ref # NotSent
          /\ int16(sent_tgt) = int16(sent_ref)
          /\ int16(sent_tgt) = latest_block_number
    /\ baseline_fetches <= 1
    /\ baseline_fetches = 1 => baseline_from = rpc_url
    /\ polls > 0 => baseline_fetches = 1

C10_BaselineKept ==
    [][(pc \in {"loop", "poll", "sleep"}) =>
          (initial_block_number' = initial_block_number)]_vars

\* C10: the reference head is fetched exactly once; the block number sent
\* to the target is the integer sent to the reference, that one fetched
\* head, even when the reference head has advanced since; the baseline is
\* read once, from the target, before the first poll, and polling does not
\* change it.
C10_OneHeadOneBaseline == []C10_Numbers /\ C10_BaselineKept

C10_Witness ==
    /\ pc = "done"
    /\ Reported
    /\ sent_tgt # NotSent
    /\ ref_head > latest_block_number
    /\ polls >= 2
    /\ initial_block_number # None

====
